---- MODULE Spec2Model ----
(***************************************************************************)
(* Shape-to-path generation of bevy_prototype_lyon (src/shapes.rs).        *)
(*                                                                         *)
(* Every shape implements generate_sprite: it creates fresh Buffers, builds *)
(* a lyon path from the shape's parameters in a fresh path Builder, hands   *)
(* the path to the tessellator and wraps the buffers into a sprite.         *)
(*                                                                         *)
(* Numbers.  f32 values are modelled by integers.  The only arithmetic the  *)
(* source does is negation, division by 2.0 and (inside lyon's Rect) one    *)
(* addition; rectangle dimensions are drawn from the even integers, so the  *)
(* division by two is exact, as it is in f32.  NaN and infinities are not   *)
(* modelled.                                                                *)
(*                                                                         *)
(* Types.  bevy's Vec2 is the record [x, y]; lyon's Point is the pair       *)
(* <<x, y>>; lyon's Size is [width, height]; lyon's Rect is [origin, size]. *)
(* A path is the sequence of events its builder received.                   *)
(*                                                                         *)
(* lyon.  Builder, add_polygon and add_rectangle belong to the lyon_path    *)
(* crate: add_polygon emits begin, one line_to per further point and        *)
(* end(closed), and nothing for no points; add_rectangle emits the corners  *)
(* min, (max_x, min_y), max, (min_x, max_y) of the euclid Rect as a closed  *)
(* polygon, where min is the Rect's origin and max is origin + size.        *)
(* add_circle and add_ellipse are kept as the call with its arguments: the  *)
(* curve approximation is lyon's floating-point work.                       *)
(*                                                                         *)
(* material, meshes, mode and transform take no part in building the path   *)
(* and are left out.                                                        *)
(***************************************************************************)
EXTENDS Integers, Sequences, FiniteSets, TLC

\* ---------------------------------------------------------------- bounds
MaxDim == 2        \* rectangle width/height range over 2 * (-MaxDim..MaxDim)
MaxRadius == 2     \* circle radius and ellipse radii range over 0..MaxRadius
MaxCoord == 1      \* centers and polygon points have coordinates in 0..MaxCoord
MaxPoints == 3     \* polygons have at most MaxPoints points

\* ---------------------------------------------------------------- values
Callers == {"a", "b"}

Dims == {2 * n : n \in (0 - MaxDim)..MaxDim}
Radii == 0..MaxRadius
Coords == 0..MaxCoord

\* bevy::math::Vec2
Vec2 == [x : Coords, y : Coords]
Vec2New(px, py) == [x |-> px, y |-> py]

RectangleOrigin == {"Center", "BottomLeft", "BottomRight", "TopRight", "TopLeft"}

Rectangle == [kind : {"Rectangle"}, width : Dims, height : Dims, origin : RectangleOrigin]

Circle == [kind : {"Circle"}, radius : Radii, center : Vec2]

Ellipse == [kind : {"Ellipse"}, radii : [x : Radii, y : Radii], center : Vec2]

PointSeqs == UNION {[1..n -> Vec2] : n \in 0..MaxPoints}

Polygon == [kind : {"Polygon"}, points : PointSeqs, closed : BOOLEAN]

Shapes == Rectangle \cup Circle \cup Ellipse \cup Polygon

\* impl Default for ...
PolygonDefault == [kind |-> "Polygon", points |-> << >>, closed |-> TRUE]

\* ------------------------------------------------------ crate::conversions
ToLyonPoint(v) == <<v.x, v.y>>
ToLyonVector(v) == <<v.x, v.y>>

\* ------------------------------------------------------------ lyon / euclid
PointNew(px, py) == <<px, py>>
SizeNew(w, h) == [width |-> w, height |-> h]
RectNew(o, s) == [origin |-> o, size |-> s]
RectMin(r) == r.origin
RectMax(r) == <<r.origin[1] + r.size.width, r.origin[2] + r.size.height>>
RectMinX(r) == r.origin[1]
RectMaxX(r) == r.origin[1] + r.size.width
RectMinY(r) == r.origin[2]
RectMaxY(r) == r.origin[2] + r.size.height
AngleZero == 0

\* the events a path builder records
Begin(b, p) == Append(b, [verb |-> "Begin", at |-> p])
LineTo(b, p) == Append(b, [verb |-> "Line", at |-> p])
End(b, close) == Append(b, [verb |-> "End", close |-> close])

RECURSIVE LinesTo(_, _, _)
LinesTo(b, pts, i) ==
    IF i > Len(pts) THEN b ELSE LinesTo(LineTo(b, pts[i]), pts, i + 1)

\* LyonPolygon { points, closed }
LyonPolygon(pts, isClosed) == [points |-> pts, closed |-> isClosed]

AddPolygon(b, polygon) ==
    IF Len(polygon.points) = 0
    THEN b
    ELSE End(LinesTo(Begin(b, polygon.points[1]), polygon.points, 2), polygon.closed)

\* add_rectangle emitting the clockwise order whatever the winding
AddRectangleClockwise(b, r, winding) ==
    AddPolygon(b, LyonPolygon(
        <<RectMin(r), PointNew(RectMinX(r), RectMaxY(r)),
          RectMax(r), PointNew(RectMaxX(r), RectMinY(r))>>, TRUE))

AddRectangle(b, r, winding) ==
    IF winding = "Positive"
    THEN AddPolygon(b, LyonPolygon(
             <<RectMin(r), PointNew(RectMaxX(r), RectMinY(r)),
               RectMax(r), PointNew(RectMinX(r), RectMaxY(r))>>, TRUE))
    ELSE AddPolygon(b, LyonPolygon(
             <<RectMin(r), PointNew(RectMinX(r), RectMaxY(r)),
               RectMax(r), PointNew(RectMaxX(r), RectMinY(r))>>, TRUE))

AddCircle(b, center, radius, winding) ==
    Append(b, [verb |-> "Circle", center |-> center, radius |-> radius,
               winding |-> winding])

AddEllipse(b, center, radii, x_rotation, winding) ==
    Append(b, [verb |-> "Ellipse", center |-> center, radii |-> radii,
               x_rotation |-> x_rotation, winding |-> winding])

BuilderNew == << >>
BuilderBuild(b) == b

\* ------------------------------------------------------------- shapes.rs
Half(v) == v \div 2

\* the match with the sign of BottomRight's x lost
ComputeOriginMirrored(self) ==
    CASE self.origin = "Center" -> PointNew(Half(0 - self.width), Half(0 - self.height))
      [] self.origin = "BottomLeft" -> PointNew(0, 0)
      [] self.origin = "BottomRight" -> PointNew(self.width, 0)
      [] self.origin = "TopRight" -> PointNew(0 - self.width, 0 - self.height)
      [] self.origin = "TopLeft" -> PointNew(0, 0 - self.height)

\* Rectangle::generate_sprite, the match on self.origin
ComputeOrigin(self) ==
    CASE self.origin = "Center" -> PointNew(Half(0 - self.width), Half(0 - self.height))
      [] self.origin = "BottomLeft" -> PointNew(0, 0)
      [] self.origin = "BottomRight" -> PointNew(0 - self.width, 0)
      [] self.origin = "TopRight" -> PointNew(0 - self.width, 0 - self.height)
      [] self.origin = "TopLeft" -> PointNew(0, 0 - self.height)

\* an off-by-one collect that drops the last point
CollectPointsShort(self) ==
    [i \in 1..(Len(self.points) - 1) |-> ToLyonPoint(self.points[i])]

\* Polygon::generate_sprite, self.points.iter().map(to_lyon_point).collect()
CollectPoints(self) == [i \in 1..Len(self.points) |-> ToLyonPoint(self.points[i])]

\* ------------------------------------------------------------------ state
VARIABLES
    pc,            \* per caller: where its generate_sprite call stands
    shape,         \* per caller: the shape the call borrows as &self
    buffers,       \* per caller: local `buffers`
    origin,        \* per caller: local `origin` (Rectangle)
    points,        \* per caller: local `points` (Polygon)
    path_builder,  \* per caller: local `path_builder`
    path,          \* per caller: local `path`
    sprite         \* per caller: the SpriteBundle the call returned

vars == <<pc, shape, buffers, origin, points, path_builder, path, sprite>>

\* Buffers::new()
BuffersNew == [filled |-> FALSE, geometry |-> << >>]

\* ShapeSprite::tessellate(&path, &mut buffers, mode, tessellator): the
\* tessellator fills the buffers with the geometry of the path it is handed
Tessellate(p, buf) == [filled |-> TRUE, geometry |-> p]

\* create_sprite(material, meshes, buffers, transform)
CreateSprite(buf) == [mesh |-> buf]

NoSprite == [mesh |-> BuffersNew]

\* a builder shared by all calls instead of one per call
SharedBuilders(f, c) == [d \in DOMAIN f |-> BuilderNew]

\* Builder::new() bound to the call's own local `path_builder`
FreshBuilders(f, c) == [f EXCEPT ![c] = BuilderNew]

\* the built path written to a place all calls share
StorePathShared(f, c, b) == [d \in DOMAIN f |-> BuilderBuild(b)]

\* path_builder.build() bound to the call's own local `path`
StorePath(f, c, b) == [f EXCEPT ![c] = BuilderBuild(b)]

Init ==
    /\ pc = [c \in Callers |-> "idle"]
    /\ shape = [c \in Callers |-> PolygonDefault]
    /\ buffers = [c \in Callers |-> BuffersNew]
    /\ origin = [c \in Callers |-> PointNew(0, 0)]
    /\ points = [c \in Callers |-> << >>]
    /\ path_builder = [c \in Callers |-> << >>]
    /\ path = [c \in Callers |-> << >>]
    /\ sprite = [c \in Callers |-> NoSprite]

\* the caller constructs a shape and calls generate_sprite on it
Call(c, s) ==
    /\ pc[c] \in {"idle", "done"}
    /\ shape' = [shape EXCEPT ![c] = s]
    /\ pc' = [pc EXCEPT ![c] = "buffers"]
    /\ buffers' = [buffers EXCEPT ![c] = BuffersNew]
    /\ origin' = [origin EXCEPT ![c] = PointNew(0, 0)]
    /\ points' = [points EXCEPT ![c] = << >>]
    /\ path_builder' = [path_builder EXCEPT ![c] = << >>]
    /\ path' = [path EXCEPT ![c] = << >>]
    /\ sprite' = [sprite EXCEPT ![c] = NoSprite]

\* let mut buffers = Buffers::new();
NewBuffers(c) ==
    /\ pc[c] = "buffers"
    /\ buffers' = [buffers EXCEPT ![c] = BuffersNew]
    /\ pc' = [pc EXCEPT ![c] =
                CASE shape[c].kind = "Rectangle" -> "origin"
                  [] shape[c].kind = "Polygon" -> "points"
                  [] OTHER -> "builder"]
    /\ UNCHANGED <<shape, origin, points, path_builder, path, sprite>>

\* let origin = match self.origin { ... };
MatchOrigin(c) ==
    /\ pc[c] = "origin"
    /\ origin' = [origin EXCEPT ![c] = ComputeOrigin(shape[c])]
    /\ pc' = [pc EXCEPT ![c] = "builder"]
    /\ UNCHANGED <<shape, buffers, points, path_builder, path, sprite>>

\* let points = self.points.iter().map(|p| p.to_lyon_point()).collect();
MapPoints(c) ==
    /\ pc[c] = "points"
    /\ points' = [points EXCEPT ![c] = CollectPoints(shape[c])]
    /\ pc' = [pc EXCEPT ![c] = "builder"]
    /\ UNCHANGED <<shape, buffers, origin, path_builder, path, sprite>>

\* let mut path_builder = Builder::new();
NewBuilder(c) ==
    /\ pc[c] = "builder"
    /\ path_builder' = FreshBuilders(path_builder, c)
    /\ pc' = [pc EXCEPT ![c] = "add"]
    /\ UNCHANGED <<shape, buffers, origin, points, path, sprite>>

\* the rectangle built with width and height exchanged
RectArgSwapped(self, o) == RectNew(o, SizeNew(self.height, self.width))

\* &Rect::new(origin, Size::new(self.width, self.height))
RectArg(self, o) == RectNew(o, SizeNew(self.width, self.height))

WindingNegative == "Negative"

\* Winding::Positive, the winding every shape asks for
WindingArg == "Positive"

\* a radius validated before use: zero replaced by one
RadiusArgValidated(self) == IF self.radius = 0 THEN 1 ELSE self.radius

\* self.radius, passed as it is
RadiusArg(self) == self.radius

\* path_builder.add_rectangle / add_circle / add_ellipse / add_polygon
AddShape(b, self, o, pts) ==
    CASE self.kind = "Rectangle" ->
           AddRectangle(b, RectArg(self, o), WindingArg)
      [] self.kind = "Circle" ->
           AddCircle(b, ToLyonPoint(self.center), RadiusArg(self), WindingArg)
      [] self.kind = "Ellipse" ->
           AddEllipse(b, ToLyonPoint(self.center), ToLyonVector(self.radii),
                      AngleZero, WindingArg)
      [] self.kind = "Polygon" ->
           AddPolygon(b, LyonPolygon(pts, self.closed))

Add(c) ==
    /\ pc[c] = "add"
    /\ path_builder' = [path_builder EXCEPT ![c] =
                          AddShape(path_builder[c], shape[c], origin[c], points[c])]
    /\ pc' = [pc EXCEPT ![c] = "build"]
    /\ UNCHANGED <<shape, buffers, origin, points, path, sprite>>

\* let path = path_builder.build();
Build(c) ==
    /\ pc[c] = "build"
    /\ path' = StorePath(path, c, path_builder[c])
    /\ pc' = [pc EXCEPT ![c] = "tessellate"]
    /\ UNCHANGED <<shape, buffers, origin, points, path_builder, sprite>>

\* self.tessellate(&path, &mut buffers, mode, tessellator);
DoTessellate(c) ==
    /\ pc[c] = "tessellate"
    /\ buffers' = [buffers EXCEPT ![c] = Tessellate(path[c], buffers[c])]
    /\ pc' = [pc EXCEPT ![c] = "sprite"]
    /\ UNCHANGED <<shape, origin, points, path_builder, path, sprite>>

\* create_sprite(material, meshes, buffers, transform)
Return(c) ==
    /\ pc[c] = "sprite"
    /\ sprite' = [sprite EXCEPT ![c] = CreateSprite(buffers[c])]
    /\ pc' = [pc EXCEPT ![c] = "done"]
    /\ UNCHANGED <<shape, buffers, origin, points, path_builder, path>>

Step(c) ==
    \/ NewBuffers(c)
    \/ MatchOrigin(c)
    \/ MapPoints(c)
    \/ NewBuilder(c)
    \/ Add(c)
    \/ Build(c)
    \/ DoTessellate(c)
    \/ Return(c)

\* one call, on any shape of the bounded parameter space
Next ==
    \/ pc["a"] = "idle" /\ \E s \in Shapes : Call("a", s)
    \/ Step("a")

Spec == Init /\ [][Next]_vars

\* the shapes two concurrent callers draw from: every kind, every origin,
\* degenerate and regular parameters
ParPoints(pts) ==
    \A i \in 1..Len(pts) : pts[i].x = i % 2 /\ pts[i].y = pts[1].y
ParShapes ==
    {s \in Rectangle : s.width = 2 /\ s.height \in {2, 4}}
    \cup {s \in Circle : s.center = Vec2New(0, 0)}
    \cup {s \in Ellipse : s.center = Vec2New(0, 0) /\ s.radii.x = MaxRadius}
    \cup {s \in Polygon : ParPoints(s.points)}

\* two callers, their calls interleaved statement by statement
NextPar ==
    \E c \in Callers :
        \/ \E s \in ParShapes : Call(c, s)
        \/ Step(c)

SpecPar == Init /\ [][NextPar]_vars

\* ------------------------------------------------------- reading a path
\* the positions in p of its Begin and Line events, in order
RECURSIVE VertexIndices(_, _)
VertexIndices(p, i) ==
    IF i > Len(p) THEN << >>
    ELSE IF p[i].verb \in {"Begin", "Line"}
         THEN <<i>> \o VertexIndices(p, i + 1)
         ELSE VertexIndices(p, i + 1)

\* the vertices a path visits, in order
Vertices(p) == LET ix == VertexIndices(p, 1) IN [k \in 1..Len(ix) |-> p[ix[k]].at]

\* p is exactly one contour of line segments: Begin, Lines, End
OneContour(p) ==
    /\ Len(p) >= 2
    /\ p[1].verb = "Begin"
    /\ p[Len(p)].verb = "End"
    /\ \A i \in 2..(Len(p) - 1) : p[i].verb = "Line"

ContourClosed(p) == p[Len(p)].close

\* twice the signed area of the closed polygon v (shoelace formula)
RECURSIVE Shoelace(_, _)
Shoelace(v, i) ==
    IF i > Len(v) THEN 0
    ELSE LET a == v[i]
             b == v[(i % Len(v)) + 1]
         IN (a[1] * b[2] - b[1] * a[2]) + Shoelace(v, i + 1)

Area2(v) == Shoelace(v, 1)

Xs(v) == {v[i][1] : i \in 1..Len(v)}
Ys(v) == {v[i][2] : i \in 1..Len(v)}
Least(S) == CHOOSE m \in S : \A n \in S : m <= n
Greatest(S) == CHOOSE m \in S : \A n \in S : m >= n

\* where a call stands
Computed(c) == pc[c] \in {"builder", "add", "build", "tessellate", "sprite", "done"}
Added(c) == pc[c] \in {"build", "tessellate", "sprite", "done"}
Built(c) == pc[c] \in {"tessellate", "sprite", "done"}
Running(c) == pc[c] \notin {"idle", "done"}
IsRect(c) == shape[c].kind = "Rectangle"
IsPolygon(c) == shape[c].kind = "Polygon"
PositiveRect(c) == IsRect(c) /\ shape[c].width > 0 /\ shape[c].height > 0

\* ------------------------------------------------------------------ C1
\* C1: for every Rectangle and each origin variant the anchor point of the
\* contour is Center -> (-w/2, -h/2), BottomLeft -> (0, 0),
\* BottomRight -> (-w, 0), TopRight -> (-w, -h), TopLeft -> (0, -h): the
\* local `origin` holds it once computed and the contour begins there.
AnchorIs(o, w, h, variant) ==
    CASE variant = "Center" -> 2 * o[1] = 0 - w /\ 2 * o[2] = 0 - h
      [] variant = "BottomLeft" -> o[1] = 0 /\ o[2] = 0
      [] variant = "BottomRight" -> o[1] = 0 - w /\ o[2] = 0
      [] variant = "TopRight" -> o[1] = 0 - w /\ o[2] = 0 - h
      [] variant = "TopLeft" -> o[1] = 0 /\ o[2] = 0 - h

C1_Anchor ==
    \A c \in Callers :
        IsRect(c) =>
            /\ Computed(c) =>
                 AnchorIs(origin[c], shape[c].width, shape[c].height, shape[c].origin)
            /\ Built(c) =>
                 /\ path[c][1].verb = "Begin"
                 /\ AnchorIs(path[c][1].at, shape[c].width, shape[c].height,
                             shape[c].origin)

C1_Witness ==
    \E c \in Callers :
        /\ pc[c] = "done"
        /\ shape[c] = [kind |-> "Rectangle", width |-> 2, height |-> 4,
                       origin |-> "Center"]
        /\ origin[c] = <<0 - 1, 0 - 2>>
        /\ path[c][1].at = <<0 - 1, 0 - 2>>

\* ------------------------------------------------------------------ C2
\* C2: for positive width w and height h and any origin variant, with o the
\* anchor, the path is one closed contour of exactly the 4 vertices
\* o, o+(w,0), o+(w,h), o+(0,h) in this order, which is counter-clockwise:
\* its shoelace signed area is w*h > 0.
C2_Contour ==
    \A c \in Callers :
        (PositiveRect(c) /\ Built(c)) =>
            LET w == shape[c].width
                h == shape[c].height
                v == Vertices(path[c])
            IN /\ OneContour(path[c])
               /\ ContourClosed(path[c])
               /\ Len(v) = 4
               /\ AnchorIs(v[1], w, h, shape[c].origin)
               /\ v[2] = <<v[1][1] + w, v[1][2]>>
               /\ v[3] = <<v[1][1] + w, v[1][2] + h>>
               /\ v[4] = <<v[1][1], v[1][2] + h>>
               /\ Area2(v) = 2 * w * h
               /\ Area2(v) > 0

C2_Witness ==
    \E c \in Callers :
        /\ pc[c] = "done"
        /\ shape[c] = [kind |-> "Rectangle", width |-> 2, height |-> 4,
                       origin |-> "Center"]
        /\ Vertices(path[c]) = << <<0 - 1, 0 - 2>>, <<1, 0 - 2>>, <<1, 2>>, <<0 - 1, 2>> >>
        /\ ContourClosed(path[c])

\* ------------------------------------------------------------------ C3
\* C3 as stated: for every width and height, zero and negative ones
\* included, and every origin variant, the path has 4 vertices forming a
\* positively wound closed rectangle.
C3_AlwaysPositive ==
    \A c \in Callers :
        (IsRect(c) /\ Built(c)) =>
            /\ OneContour(path[c])
            /\ ContourClosed(path[c])
            /\ Len(Vertices(path[c])) = 4
            /\ Area2(Vertices(path[c])) > 0

\* C3 amended: for every width w and height h and every origin variant the
\* path is one closed contour of 4 vertices whose signed area is w*h, so it
\* is positively wound exactly when w*h > 0, negatively wound when
\* w*h < 0 and of zero area when w or h is zero.
C3_SignedArea ==
    \A c \in Callers :
        (IsRect(c) /\ Built(c)) =>
            LET w == shape[c].width
                h == shape[c].height
                v == Vertices(path[c])
            IN /\ OneContour(path[c])
               /\ ContourClosed(path[c])
               /\ Len(v) = 4
               /\ Area2(v) = 2 * w * h
               /\ (Area2(v) > 0) <=> (w * h > 0)
               /\ (Area2(v) < 0) <=> (w * h < 0)

C3_Witness ==
    \E c \in Callers :
        /\ pc[c] = "done"
        /\ IsRect(c)
        /\ shape[c].width < 0
        /\ shape[c].height > 0
        /\ Len(Vertices(path[c])) = 4
        /\ Area2(Vertices(path[c])) < 0

\* ------------------------------------------------------------------ C4
\* C4: for positive width and height the point of the contour's bounding
\* box that the origin variant names lies at (0,0) (Center: the centre;
\* BottomLeft: (min x, min y); BottomRight: (max x, min y); TopRight:
\* (max x, max y); TopLeft: (min x, max y)) and the box is width wide and
\* height tall.
C4_Pivot ==
    \A c \in Callers :
        (PositiveRect(c) /\ Built(c)) =>
            LET v == Vertices(path[c])
                minx == Least(Xs(v))
                maxx == Greatest(Xs(v))
                miny == Least(Ys(v))
                maxy == Greatest(Ys(v))
                variant == shape[c].origin
            IN /\ maxx - minx = shape[c].width
               /\ maxy - miny = shape[c].height
               /\ variant = "Center" => (minx + maxx = 0 /\ miny + maxy = 0)
               /\ variant = "BottomLeft" => (minx = 0 /\ miny = 0)
               /\ variant = "BottomRight" => (maxx = 0 /\ miny = 0)
               /\ variant = "TopRight" => (maxx = 0 /\ maxy = 0)
               /\ variant = "TopLeft" => (minx = 0 /\ maxy = 0)

C4_Witness ==
    \E c \in Callers :
        /\ pc[c] = "done"
        /\ PositiveRect(c)
        /\ shape[c].origin = "TopLeft"
        /\ shape[c].width # shape[c].height
        /\ Least(Xs(Vertices(path[c]))) = 0
        /\ Greatest(Ys(Vertices(path[c]))) = 0

\* ------------------------------------------------------------------ C5
\* C5: the contour of a Polygon visits exactly the given points in
\* insertion order, none added, dropped or reordered; with closed = TRUE
\* the contour ends closed (one implicit edge from the last point back to
\* the first), with closed = FALSE it ends open; no explicit edge back to
\* the first point is emitted either way.
C5_Polygon ==
    \A c \in Callers :
        (IsPolygon(c) /\ Built(c)) =>
            LET pts == shape[c].points
                v == Vertices(path[c])
            IN /\ Len(v) = Len(pts)
               /\ \A i \in 1..Len(pts) : v[i] = <<pts[i].x, pts[i].y>>
               /\ Len(pts) = 0 => path[c] = << >>
               /\ Len(pts) > 0 =>
                    /\ OneContour(path[c])
                    /\ Len(path[c]) = Len(pts) + 1
                    /\ ContourClosed(path[c]) = shape[c].closed

C5_Witness ==
    \E c \in Callers :
        LET tri == <<Vec2New(0, 0), Vec2New(1, 0), Vec2New(1, 1)>>
        IN /\ pc[c] = "done"
           /\ shape[c] = [kind |-> "Polygon", points |-> tri, closed |-> TRUE]
           /\ Vertices(path[c]) = << <<0, 0>>, <<1, 0>>, <<1, 1>> >>
           /\ ContourClosed(path[c])

\* ------------------------------------------------------------------ C6
Degenerate(s) ==
    CASE s.kind = "Rectangle" -> s.width = 0 \/ s.height = 0
      [] s.kind = "Circle" -> s.radius = 0
      [] s.kind = "Ellipse" -> s.radii.x = 0 \/ s.radii.y = 0
      [] s.kind = "Polygon" -> Len(s.points) < 3

\* the path that carries the parameters of s unmodified
Unmodified(s, p) ==
    CASE s.kind = "Rectangle" ->
           LET v == Vertices(p)
           IN /\ OneContour(p)
              /\ Len(v) = 4
              /\ AnchorIs(v[1], s.width, s.height, s.origin)
              /\ v[2] = <<v[1][1] + s.width, v[1][2]>>
              /\ v[3] = <<v[1][1] + s.width, v[1][2] + s.height>>
              /\ v[4] = <<v[1][1], v[1][2] + s.height>>
      [] s.kind = "Circle" ->
           p = << [verb |-> "Circle", center |-> <<s.center.x, s.center.y>>,
                   radius |-> s.radius, winding |-> "Positive"] >>
      [] s.kind = "Ellipse" ->
           p = << [verb |-> "Ellipse", center |-> <<s.center.x, s.center.y>>,
                   radii |-> <<s.radii.x, s.radii.y>>, x_rotation |-> 0,
                   winding |-> "Positive"] >>
      [] s.kind = "Polygon" ->
           /\ Vertices(p) = [i \in 1..Len(s.points) |-> <<s.points[i].x, s.points[i].y>>]
           /\ Len(p) = IF Len(s.points) = 0 THEN 0 ELSE Len(s.points) + 1

\* C6: generation never fails and never validates: for a zero-area
\* Rectangle, a Circle or Ellipse with a zero radius and a Polygon of 2, 1
\* or 0 points (the Default polygon) every statement of the call can run,
\* the path is built from the unmodified parameters, that path is what the
\* tessellator is handed, and the call returns a sprite.
C6_Degenerate ==
    \A c \in Callers :
        Degenerate(shape[c]) =>
            /\ Running(c) => ENABLED Step(c)
            /\ Built(c) => Unmodified(shape[c], path[c])
            /\ pc[c] \in {"sprite", "done"} =>
                 (buffers[c].filled /\ buffers[c].geometry = path[c])
            /\ pc[c] = "done" => sprite[c].mesh = buffers[c]

C6_Witness ==
    \E c \in Callers :
        /\ pc[c] = "done"
        /\ shape[c] = PolygonDefault
        /\ path[c] = << >>
        /\ sprite[c].mesh.filled

\* ------------------------------------------------------------------ C7
\* C7: two calls with identical parameters, whatever other generation
\* calls ran in between or meanwhile, return the same path (same events,
\* hence same vertices, order, winding and closed flag) and the same sprite.
C7_Deterministic ==
    \A c, d \in Callers :
        (pc[c] = "done" /\ pc[d] = "done" /\ shape[c] = shape[d]) =>
            (path[c] = path[d] /\ sprite[c] = sprite[d])

C7_Witness ==
    \E c, d \in Callers :
        /\ c # d
        /\ pc[c] = "done"
        /\ pc[d] = "done"
        /\ shape[c] = shape[d]
        /\ shape[c].kind = "Rectangle"
        /\ Len(path[c]) = 5
        /\ path[c] = path[d]

\* ------------------------------------------------------------------ C8
\* the path a call on s produces when it runs alone, start to end
GeneratePath(s) ==
    BuilderBuild(AddShape(BuilderNew, s,
                          IF s.kind = "Rectangle" THEN ComputeOrigin(s) ELSE PointNew(0, 0),
                          IF s.kind = "Polygon" THEN CollectPoints(s) ELSE << >>))

PathAlone ==
    \A c \in Callers :
        /\ Added(c) => path_builder[c] = GeneratePath(shape[c])
        /\ Built(c) => path[c] = GeneratePath(shape[c])
        /\ pc[c] \in {"sprite", "done"} => buffers[c].geometry = path[c]

\* a shape changes only when its own caller starts a new call on it
ParametersKept ==
    \A c \in Callers :
        shape'[c] # shape[c] => (~Running(c) /\ pc'[c] = "buffers")

\* C8: in every interleaving of several calls each call's path equals the
\* path the call produces when run alone, and no step of any call modifies
\* the parameters of a shape.
C8_Independent == [](PathAlone) /\ [][ParametersKept]_vars

C8_Witness ==
    \E c, d \in Callers :
        /\ c # d
        /\ pc[c] = "tessellate"
        /\ pc[d] = "build"
        /\ shape[c].kind = "Polygon"
        /\ shape[d].kind = "Circle"
        /\ Len(path[c]) = 4
        /\ path[c] = GeneratePath(shape[c])

====
